---- MODULE Spec2Model ----
(***************************************************************************)
(* EncryptedLuckyDraw (contracts/EncryptedLuckyDraw.sol): the on-chain     *)
(* state machine of the encrypted raffle - registration, draw, per         *)
(* participant access-control grants - together with the part of the FHE   *)
(* co-processor the contract drives: the ciphertext store (handle ->       *)
(* plaintext) and the persistent access-control list (handle, account).    *)
(* chain is the contract's storage together with the co-processor state,  *)
(* receipt the outcome of the latest transaction.                          *)
(***************************************************************************)
EXTENDS Integers, Sequences, FiniteSets, TLC

VARIABLES chain, receipt, blockTimestamp, drawCount, wallet, hook, ops, call, page

vars == <<chain, receipt, blockTimestamp, drawCount, wallet, hook, ops, call, page>>

contractVars == <<chain, receipt, blockTimestamp, drawCount>>

hookVars == <<wallet, hook, ops, call, page>>

(***************************************************************************)
(* Bounds of the model.                                                    *)
(***************************************************************************)
NumAccounts == 3
NumDeployers == 1
MaxCap == 3
MaxClearId == 1
MaxSeed == 2
MaxTimestamp == 2
MaxDraws == 2

Address == 1..NumAccounts
\* the accounts that may deploy the contract (accounts are interchangeable)
Deployers == 1..NumDeployers
\* address(this): the contract's own account in the access-control list
This == 0
ClearIds == 0..MaxClearId
Seeds == 0..MaxSeed

\* uint32(x): truncation to 32 bits.  Every value the bounded model converts
\* (a participant count or an array index) is below 2^31, where the
\* truncation leaves the value unchanged.
Uint32(x) == x

(***************************************************************************)
(* Ciphertext handles.  A handle is a bytes32 value.  The FHE executor     *)
(* derives the handle of a result by hashing the operator with its         *)
(* operands (for a trivial encryption: the clear value and the type), so   *)
(* equal operations give equal handles: FHE.asEbool(false) is one and the  *)
(* same handle in every call.  The hash is modelled by an injective        *)
(* encoding into the naturals; 0 is the zero handle of an uninitialised    *)
(* euint32 / ebool.  The plaintext behind a handle lives in the            *)
(* co-processor's store (chain.ciphertexts) and is read through Plain;     *)
(* grants made with FHE.allow / FHE.allowThis persist in chain.acl.        *)
(***************************************************************************)
ZeroHandle == 0

Pair(x, y) == ((x + y) * (x + y + 1)) \div 2 + y

OpCode(op) == CASE op = "trivialEncrypt" -> 0
                [] op = "fheEq" -> 1
                [] op = "input" -> 2
                [] op = "commitment" -> 3

Keccak(op, x, y) == 1 + OpCode(op) + 4 * Pair(x, y)

TypeCode(t) == IF t = "ebool" THEN 0 ELSE 1

\* mapping write ct[h] = v on the ciphertext store
Store(ct, h, v) == [x \in (DOMAIN ct) \cup {h} |-> IF x = h THEN v ELSE ct[x]]

\* FHE.asEbool(b): trivial encryption of a clear boolean
asEbool(b) == Keccak("trivialEncrypt", IF b THEN 1 ELSE 0, TypeCode("ebool"))

\* FHE.asEuint32(v): trivial encryption of a clear uint32
asEuint32_raw(v) == v

asEuint32(v) == Keccak("trivialEncrypt", v, TypeCode("euint32"))

\* FHE.eq(lhs, rhs): the handle of the encrypted comparison
eqHandle(lhs, rhs) == Keccak("fheEq", lhs, rhs)

\* FHE.eq(lhs, rhs): the plaintext the co-processor computes for it
eqValue_ne(ct, lhs, rhs) == IF ct[lhs] # ct[rhs] THEN 1 ELSE 0

eqValue(ct, lhs, rhs) == IF ct[lhs] = ct[rhs] THEN 1 ELSE 0

\* instance.createEncryptedInput(contract, user).add32(clearId).encrypt()
EncryptedInput(user, clearId) ==
    [handle |-> Keccak("input", user, clearId), user |-> user, value |-> clearId]

Inputs == {EncryptedInput(u, v) : u \in Address, v \in ClearIds}

\* ACL: may `account` decrypt `h` (the contract must hold the handle too)
isAllowed(st, h, account) == <<h, account>> \in st.acl

userDecryptAllowed(st, h, account) ==
    isAllowed(st, h, account) /\ isAllowed(st, h, This)

\* the plaintext behind a handle known to the co-processor
Plain(st, h) == st.ciphertexts[h]

(***************************************************************************)
(* The contract.  Every external function is a function from the storage   *)
(* before the call to the storage after it, the revert reason ("ok" when   *)
(* the call succeeds) and the logs it emits.  A revert restores storage.   *)
(***************************************************************************)
Revert(st, reason) == [st |-> st, status |-> reason, logs |-> <<>>]

\* a constructor that leaves ADMIN_ADDRESS unset
constructor_noAdmin(deployer, maxParticipants) ==
    [ADMIN_ADDRESS |-> This,
     MAX_PARTICIPANTS |-> maxParticipants,
     participants |-> <<>>,
     registered |-> [a \in Address |-> FALSE],
     indices |-> [a \in Address |-> 0],
     encryptedIds |-> [a \in Address |-> ZeroHandle],
     winStatus |-> [a \in Address |-> ZeroHandle],
     encryptedWinnerIndex |-> ZeroHandle,
     hasDrawn |-> FALSE,
     lastDrawTimestamp |-> 0,
     ciphertexts |-> [h \in {} |-> 0],
     acl |-> {}]

constructor(deployer, maxParticipants) ==
    [ADMIN_ADDRESS |-> deployer,
     MAX_PARTICIPANTS |-> maxParticipants,
     participants |-> <<>>,
     registered |-> [a \in Address |-> FALSE],
     indices |-> [a \in Address |-> 0],
     encryptedIds |-> [a \in Address |-> ZeroHandle],
     winStatus |-> [a \in Address |-> ZeroHandle],
     encryptedWinnerIndex |-> ZeroHandle,
     hasDrawn |-> FALSE,
     lastDrawTimestamp |-> 0,
     ciphertexts |-> [h \in {} |-> 0],
     acl |-> {}]

\* modifier onlyAdmin: does the call pass it
onlyAdmin_open(st, sender) == TRUE

onlyAdmin(st, sender) == sender = st.ADMIN_ADDRESS

\* register: if (_registered[msg.sender])
alreadyRegistered_never(st, sender) == FALSE

alreadyRegistered(st, sender) == st.registered[sender]

\* register: if (_participants.length >= MAX_PARTICIPANTS)
limitReached_offByOne(st) == Len(st.participants) > st.MAX_PARTICIPANTS

limitReached_closedAfterDraw(st) ==
    st.hasDrawn \/ Len(st.participants) >= st.MAX_PARTICIPANTS

limitReached(st) == Len(st.participants) >= st.MAX_PARTICIPANTS

\* register: FHE.allowThis(_encryptedIds[msg.sender]); FHE.allow(_encryptedIds[msg.sender], msg.sender)
allowEncryptedId_thisOnly(st, acl, h, sender) == acl \cup {<<h, This>>}

allowEncryptedId_adminToo(st, acl, h, sender) ==
    acl \cup {<<h, This>>, <<h, sender>>, <<h, st.ADMIN_ADDRESS>>}

allowEncryptedId(st, acl, h, sender) == acl \cup {<<h, This>>, <<h, sender>>}

\* FHE.allowThis(_winStatus[participant]); FHE.allow(_winStatus[participant], participant)
allowWinStatus(acl, h, participant) == acl \cup {<<h, This>>, <<h, participant>>}

\* register: if (_hasDrawn) FHE.allow(_encryptedWinnerIndex, msg.sender)
allowWinnerIndexOnRegister_skipped(st, acl, sender) == acl

allowWinnerIndexOnRegister(st, acl, sender) ==
    IF st.hasDrawn THEN acl \cup {<<st.encryptedWinnerIndex, sender>>} ELSE acl

\* register: uint32 participantIndex = uint32(_participants.length - 1), after the push
participantIndexOf_length(participants) == Uint32(Len(participants))

participantIndexOf(participants) == Uint32(Len(participants) - 1)

\* FHE.fromExternal accepts an input only from the account it was encrypted
\* for (the input proof binds the user); any other input reverts the call.
register(st, sender, encryptedIdInput) ==
    IF alreadyRegistered(st, sender)
    THEN Revert(st, "AlreadyRegistered")
    ELSE IF limitReached(st)
    THEN Revert(st, "Maximum participants reached")
    ELSE IF encryptedIdInput.user # sender
    THEN Revert(st, "InvalidInputProof")
    ELSE
      LET encryptedId == encryptedIdInput.handle
          pushed == Append(st.participants, sender)
          participantIndex == participantIndexOf(pushed)
          initialWin == asEbool(FALSE)
          ct == Store(Store(st.ciphertexts, encryptedId, encryptedIdInput.value),
                      initialWin, 0)
          acl1 == allowEncryptedId(st, st.acl, encryptedId, sender)
          acl2 == allowWinStatus(acl1, initialWin, sender)
          acl3 == allowWinnerIndexOnRegister(st, acl2, sender)
      IN [st |-> [st EXCEPT !.participants = pushed,
                            !.indices[sender] = participantIndex,
                            !.registered[sender] = TRUE,
                            !.encryptedIds[sender] = encryptedId,
                            !.winStatus[sender] = initialWin,
                            !.ciphertexts = ct,
                            !.acl = acl3],
          status |-> "ok",
          logs |-> <<[name |-> "ParticipantRegistered",
                      participant |-> sender,
                      index |-> participantIndex]>>]

\* drawWinner: uint32 winnerIndex = uint32(randomSeed % count)
winnerIndexOf_offByOne(randomSeed, count) == Uint32(randomSeed % (count + 1))

winnerIndexOf(randomSeed, count) == Uint32(randomSeed % count)

\* drawWinner: the loop's clear operand uint32(i)
loopSlot_shifted(i) == Uint32(i + 1)

loopSlot(i) == Uint32(i)

\* the for loop of drawWinner, iterations i .. count-1
RECURSIVE drawLoop(_, _, _)
drawLoop(st, i, count) ==
    IF i >= count THEN st
    ELSE
      LET participant == st.participants[i + 1]
          slot == asEuint32(loopSlot(i))
          ct1 == Store(st.ciphertexts, slot, loopSlot(i))
          isWinner == eqHandle(st.encryptedWinnerIndex, slot)
          ct2 == Store(ct1, isWinner, eqValue(ct1, st.encryptedWinnerIndex, slot))
          acl1 == allowWinStatus(st.acl, isWinner, participant)
          acl2 == acl1 \cup {<<st.encryptedWinnerIndex, participant>>}
      IN drawLoop([st EXCEPT !.winStatus[participant] = isWinner,
                             !.ciphertexts = ct2,
                             !.acl = acl2],
                  i + 1, count)

\* drawWinner: emit WinnerDrawn(commitment, count)
emitWinnerDrawn_perParticipant(commitment, count) ==
    [i \in 1..count |-> [name |-> "WinnerDrawn",
                         randomnessCommitment |-> commitment,
                         participantCount |-> i]]

emitWinnerDrawn(commitment, count) ==
    <<[name |-> "WinnerDrawn",
       randomnessCommitment |-> commitment,
       participantCount |-> count]>>

\* a draw that does not record block.timestamp
draw_keepsTimestamp(st, count, randomSeed, timestamp) ==
    LET winnerIndex == winnerIndexOf(randomSeed, count)
        handle == asEuint32(winnerIndex)
        st1 == [st EXCEPT !.encryptedWinnerIndex = handle,
                          !.hasDrawn = TRUE,
                          !.ciphertexts = Store(@, handle, winnerIndex),
                          !.acl = @ \cup {<<handle, This>>}]
        commitment == Keccak("commitment", randomSeed, timestamp)
    IN [st |-> drawLoop(st1, 0, count),
        status |-> "ok",
        logs |-> emitWinnerDrawn(commitment, count)]

\* a draw whose loop starts at the second participant
draw_skipsFirst(st, count, randomSeed, timestamp) ==
    LET winnerIndex == winnerIndexOf(randomSeed, count)
        handle == asEuint32(winnerIndex)
        st1 == [st EXCEPT !.encryptedWinnerIndex = handle,
                          !.lastDrawTimestamp = timestamp,
                          !.hasDrawn = TRUE,
                          !.ciphertexts = Store(@, handle, winnerIndex),
                          !.acl = @ \cup {<<handle, This>>}]
        commitment == Keccak("commitment", randomSeed, timestamp)
    IN [st |-> drawLoop(st1, 1, count),
        status |-> "ok",
        logs |-> emitWinnerDrawn(commitment, count)]

\* a draw that starts a new round by dropping the stored identifiers
draw_newRound(st, count, randomSeed, timestamp) ==
    LET winnerIndex == winnerIndexOf(randomSeed, count)
        handle == asEuint32(winnerIndex)
        st1 == [st EXCEPT !.encryptedWinnerIndex = handle,
                          !.lastDrawTimestamp = timestamp,
                          !.hasDrawn = TRUE,
                          !.encryptedIds = [a \in DOMAIN @ |-> ZeroHandle],
                          !.ciphertexts = Store(@, handle, winnerIndex),
                          !.acl = @ \cup {<<handle, This>>}]
        commitment == Keccak("commitment", randomSeed, timestamp)
    IN [st |-> drawLoop(st1, 0, count),
        status |-> "ok",
        logs |-> emitWinnerDrawn(commitment, count)]

\* drawWinner from the computation of the random seed on (count > 0)
draw(st, count, randomSeed, timestamp) ==
    LET winnerIndex == winnerIndexOf(randomSeed, count)
        handle == asEuint32(winnerIndex)
        st1 == [st EXCEPT !.encryptedWinnerIndex = handle,
                          !.lastDrawTimestamp = timestamp,
                          !.hasDrawn = TRUE,
                          !.ciphertexts = Store(@, handle, winnerIndex),
                          !.acl = @ \cup {<<handle, This>>}]
        commitment == Keccak("commitment", randomSeed, timestamp)
    IN [st |-> drawLoop(st1, 0, count),
        status |-> "ok",
        logs |-> emitWinnerDrawn(commitment, count)]

\* drawWinner that records a draw over zero participants instead of reverting
drawWinner_emptyDraw(st, sender, randomSeed, timestamp) ==
    IF ~onlyAdmin(st, sender)
    THEN Revert(st, "NotAuthorized")
    ELSE IF Len(st.participants) = 0
    THEN [st |-> [st EXCEPT !.hasDrawn = TRUE, !.lastDrawTimestamp = timestamp],
          status |-> "ok", logs |-> <<>>]
    ELSE draw(st, Len(st.participants), randomSeed, timestamp)

drawWinner(st, sender, randomSeed, timestamp) ==
    IF ~onlyAdmin(st, sender)
    THEN Revert(st, "NotAuthorized")
    ELSE
      LET count == Len(st.participants) IN
      IF count = 0
      THEN Revert(st, "NoParticipants")
      ELSE draw(st, count, randomSeed, timestamp)

\* LuckyDrawDashboard: lastDrawRelative, of the fetched lastDrawTimestamp
\* (undefined before the first fetch)
UndefinedNumber == -1

lastDrawRelative_undefinedOnly(timestamp) ==
    IF timestamp = UndefinedNumber THEN "Never" ELSE "distance to now"

lastDrawRelative(timestamp) ==
    IF timestamp = UndefinedNumber \/ timestamp = 0
    THEN "Never"
    ELSE "distance to now"

\* view functions
\* isRegistered answered from the slot index
isRegistered_byIndex(st, participant) == st.indices[participant] # 0

isRegistered(st, participant) == st.registered[participant]
participantCount(st) == Len(st.participants)
getEncryptedWinnerIndex(st) == st.encryptedWinnerIndex

\* a view call: the revert reason ("ok" when it returns) and the value returned
Returns(value) == [status |-> "ok", value |-> value]
ViewRevert(reason) == [status |-> reason, value |-> ZeroHandle]

getEncryptedId_unchecked(st, participant) == Returns(st.encryptedIds[participant])

getEncryptedId(st, participant) ==
    IF ~st.registered[participant]
    THEN ViewRevert("NotRegistered")
    ELSE Returns(st.encryptedIds[participant])

getEncryptedWinStatus(st, participant) ==
    IF ~st.registered[participant]
    THEN ViewRevert("NotRegistered")
    ELSE Returns(st.winStatus[participant])

admin(st) == st.ADMIN_ADDRESS
maxParticipants(st) == st.MAX_PARTICIPANTS
lastDrawTimestamp(st) == st.lastDrawTimestamp

(***************************************************************************)
(* The frontend.  useLuckyDraw keeps a copy of the contract's state        *)
(* (hook.state), a message and one loading flag per operation.  Every      *)
(* operation is an async function: a call runs synchronously up to its     *)
(* first await and then stays in flight (ops) until each awaited promise   *)
(* settles.  A callback sees the values of the render in which it was      *)
(* created, so an operation in flight carries the address, the signer and  *)
(* the deployment it was started with.  wallet is what wagmi,              *)
(* useBrowserEthers and useFhevm hand to the hook; call is the outcome of  *)
(* the latest call of a hook function (returned, pending, or the message   *)
(* of the error it threw).                                                 *)
(***************************************************************************)
NumWallets == 2
MaxCalls == 3
MaxOps == 2
MaxWalletChanges == 1

Undefined == "undefined"
NoAccount == 0

\* the deployment entry of EncryptedLuckyDrawAddresses for the chain
ContractAddress == "0xC0"

\* an account's address as an EIP-55 string and in lower case
ChecksumAddress == <<"0xA1", "0xB2", "0xC3", "0xD4", "0xE5">>
LowerAddress == <<"0xa1", "0xb2", "0xc3", "0xd4", "0xe5">>

WalletAccounts == 1..NumWallets

\* String.prototype.toLowerCase behind ?. : undefined stays undefined
toLowerCase(s) ==
    IF \E a \in DOMAIN ChecksumAddress : ChecksumAddress[a] = s
    THEN LowerAddress[CHOOSE a \in DOMAIN ChecksumAddress : ChecksumAddress[a] = s]
    ELSE s

AccountOf(s) ==
    IF \E a \in DOMAIN ChecksumAddress : s \in {ChecksumAddress[a], LowerAddress[a]}
    THEN CHOOSE a \in DOMAIN ChecksumAddress : s \in {ChecksumAddress[a], LowerAddress[a]}
    ELSE NoAccount

\* LuckyDrawDashboard: isAdmin and the disabled attribute of the draw button
isAdmin(address, adminAddress) ==
    /\ address # Undefined
    /\ adminAddress # Undefined
    /\ toLowerCase(address) = toLowerCase(adminAddress)

drawButtonDisabled(w, h) == ~isAdmin(w.address, h.state.admin) \/ h.isDrawing

\* useState initial values
InitialState ==
    [contractAddress |-> Undefined,
     isDeployed |-> FALSE,
     participantCount |-> UndefinedNumber,
     maxParticipants |-> UndefinedNumber,
     lastDrawTimestamp |-> UndefinedNumber,
     admin |-> Undefined,
     winnerHandle |-> UndefinedNumber,
     myIdHandle |-> UndefinedNumber,
     myWinHandle |-> UndefinedNumber,
     isRegistered |-> FALSE]

\* decryptedStatus holds 1 for true and 0 for false; contractRef tells
\* whether contractRef.current holds a contract
InitialHook ==
    [state |-> InitialState,
     message |-> "",
     isRefreshing |-> FALSE,
     isRegistering |-> FALSE,
     isDecryptingWinner |-> FALSE,
     isDecryptingStatus |-> FALSE,
     isDrawing |-> FALSE,
     decryptedWinner |-> UndefinedNumber,
     decryptedStatus |-> UndefinedNumber,
     decryptedId |-> UndefinedNumber,
     contractRef |-> FALSE]

\* the values refresh awaits from the contract
NoReads ==
    [participants |-> 0, maxParticipants |-> 0, admin |-> Undefined,
     winner |-> ZeroHandle, timestamp |-> 0]

\* an operation in flight: the function, the await it is suspended at, the
\* operation awaiting it (refresh called by register / drawWinner), the
\* values of its closure, its argument (clear identifier or handle), what
\* refresh has read so far, for a refresh its number in the order in
\* which refreshes were started, and the dashboard handler awaiting it
Idle ==
    [kind |-> "idle", pc |-> "idle", parent |-> "none",
     address |-> Undefined, canUseContract |-> FALSE, runner |-> FALSE,
     signer |-> NoAccount, arg |-> 0, reads |-> NoReads, started |-> 0,
     caller |-> "none"]

Closure(w) ==
    [Idle EXCEPT !.address = w.address,
                 !.canUseContract = w.canUseContract,
                 !.runner = (w.signer # NoAccount \/ w.provider),
                 !.signer = w.signer]

Outcome(h, op, result) == [hook |-> h, op |-> op, result |-> result]

\* the flag an operation sets while it runs (decryptMyId has none)
Flag(kind) ==
    CASE kind = "refresh" -> "isRefreshing"
      [] kind = "register" -> "isRegistering"
      [] kind = "drawWinner" -> "isDrawing"
      [] kind = "decryptWinner" -> "isDecryptingWinner"
      [] kind = "decryptMyStatus" -> "isDecryptingStatus"
      [] OTHER -> "none"

\* the finally block of an operation
finally_forgotten(h, kind) == h

finally(h, kind) ==
    IF Flag(kind) = "none" THEN h ELSE [h EXCEPT ![Flag(kind)] = FALSE]

\* errors are named by what the catch blocks look at: the code of a wallet
\* rejection, the message of a refused decryption, or anything else
isUserRejectedError(error) == error \in {"4001", "ACTION_REJECTED"}

isAuthorizationError(error) == error = "not authorized"

\* the catch block of an operation
catch(h, kind, error) ==
    [h EXCEPT !.message =
        CASE kind = "refresh" -> "Failed to refresh lucky draw state."
          [] kind = "register" ->
                IF isUserRejectedError(error) THEN "Registration cancelled in wallet."
                ELSE "Registration failed."
          [] kind = "drawWinner" ->
                IF isUserRejectedError(error) THEN "Lucky draw cancelled in wallet."
                ELSE "Failed to execute lucky draw."
          [] kind = "decryptWinner" ->
                IF isAuthorizationError(error)
                THEN "You don't have permission to decrypt the winner."
                ELSE "Failed to decrypt winner index."
          [] kind = "decryptMyStatus" ->
                IF isAuthorizationError(error)
                THEN "You can only decrypt your own latest result with this wallet."
                ELSE "Failed to decrypt draw result."
          [] OTHER ->
                IF isAuthorizationError(error)
                THEN "You can only decrypt IDs you submitted with this wallet."
                ELSE "Failed to decrypt identifier."]

\* refresh when the contract is not available on the chain
resetState(state) ==
    [state EXCEPT !.contractAddress = Undefined,
                  !.isDeployed = FALSE,
                  !.participantCount = UndefinedNumber,
                  !.maxParticipants = UndefinedNumber,
                  !.admin = Undefined,
                  !.winnerHandle = UndefinedNumber,
                  !.myIdHandle = UndefinedNumber,
                  !.myWinHandle = UndefinedNumber,
                  !.isRegistered = FALSE]

\* refresh up to its first await; cl is the closure of the render that made
\* the callback, parent the operation awaiting it
refresh(h, cl, parent) ==
    IF ~cl.canUseContract
    THEN Outcome([h EXCEPT !.state = resetState(@)], Idle, "returned")
    ELSE IF ~h.contractRef /\ ~cl.runner
    THEN Outcome(h, Idle, "returned")
    ELSE Outcome([h EXCEPT !.contractRef = TRUE,
                           !.isRefreshing = TRUE,
                           !.message = "Refreshing encrypted lucky draw state..."],
                 [cl EXCEPT !.kind = "refresh", !.pc = "reads", !.parent = parent],
                 "pending")

\* refresh: setState after the last read, then finally, then the finally
\* of the operation that awaited it
refreshed(h, op, reads, registered, myId, myWin) ==
    LET h1 == [h EXCEPT !.state =
                   [contractAddress |-> ContractAddress,
                    isDeployed |-> TRUE,
                    participantCount |-> reads.participants,
                    maxParticipants |-> reads.maxParticipants,
                    lastDrawTimestamp |-> reads.timestamp,
                    admin |-> reads.admin,
                    winnerHandle |-> reads.winner,
                    myIdHandle |-> myId,
                    myWinHandle |-> myWin,
                    isRegistered |-> registered],
                        !.message = "State refreshed."]
    IN [hook |-> finally(finally(h1, "refresh"), op.parent), op |-> Idle]

\* refresh from one await to the next, reading the contract storage st
refreshStep(h, op, st) ==
    CASE op.pc = "reads" ->
            LET reads == [participants |-> participantCount(st),
                          maxParticipants |-> maxParticipants(st),
                          admin |-> ChecksumAddress[admin(st)],
                          winner |-> getEncryptedWinnerIndex(st),
                          timestamp |-> lastDrawTimestamp(st)]
            IN IF op.address # Undefined
               THEN [hook |-> h, op |-> [op EXCEPT !.pc = "isRegistered", !.reads = reads]]
               ELSE refreshed(h, op, reads, FALSE, UndefinedNumber, UndefinedNumber)
      [] op.pc = "isRegistered" ->
            IF isRegistered(st, AccountOf(op.address))
            THEN [hook |-> h, op |-> [op EXCEPT !.pc = "handles"]]
            ELSE refreshed(h, op, op.reads, FALSE, UndefinedNumber, UndefinedNumber)
      [] OTHER ->
            refreshed(h, op, op.reads, TRUE,
                      getEncryptedId(st, AccountOf(op.address)).value,
                      getEncryptedWinStatus(st, AccountOf(op.address)).value)

\* register / drawWinner that call refresh() without awaiting it
afterMined_notAwaited(h, op, message) ==
    LET r == refresh([h EXCEPT !.message = message], op, "none")
    IN [hook |-> finally(r.hook, op.kind),
        op |-> IF r.result = "pending" THEN r.op ELSE Idle]

\* register / drawWinner after tx.wait(): setMessage, await refresh(), finally
afterMined(h, op, message) ==
    LET r == refresh([h EXCEPT !.message = message], op, op.kind)
    IN IF r.result = "pending"
       THEN [hook |-> r.hook, op |-> r.op]
       ELSE [hook |-> finally(r.hook, op.kind), op |-> Idle]

\* the error requireSigner throws, "ok" when it returns
requireSigner(w, h) ==
    IF w.signer = NoAccount \/ w.address = Undefined
    THEN "Connect wallet to continue."
    ELSE IF h.state.contractAddress = Undefined
    THEN "Contract not deployed on this network."
    ELSE IF ~w.instance
    THEN "FHEVM instance not ready."
    ELSE "ok"

\* useLuckyDraw.register up to its first await
hookRegister(w, h, clearId) ==
    IF requireSigner(w, h) # "ok"
    THEN Outcome(h, Idle, requireSigner(w, h))
    ELSE Outcome([h EXCEPT !.isRegistering = TRUE,
                           !.message = "Preparing encrypted registration..."],
                 [Closure(w) EXCEPT !.kind = "register", !.pc = "encrypt",
                                    !.arg = clearId],
                 "pending")

\* useLuckyDraw.drawWinner: the administrator check
notAdministrator_skipped(address, adminAddress) == FALSE

notAdministrator(address, adminAddress) ==
    toLowerCase(address) # toLowerCase(adminAddress)

\* useLuckyDraw.drawWinner up to its first await
hookDrawWinner(w, h) ==
    IF requireSigner(w, h) # "ok"
    THEN Outcome(h, Idle, requireSigner(w, h))
    ELSE IF notAdministrator(w.address, h.state.admin)
    THEN Outcome([h EXCEPT !.message = "Only the administrator can trigger a lucky draw."],
                 Idle, "returned")
    ELSE Outcome([h EXCEPT !.isDrawing = TRUE,
                           !.message = "Triggering encrypted lucky draw..."],
                 [Closure(w) EXCEPT !.kind = "drawWinner", !.pc = "send"],
                 "pending")

\* decryptWinner, decryptMyStatus, decryptMyId up to the first await differ in
\* the handle, the flag and the messages
decrypt(kind, handle, missing, starting, w, h) ==
    IF requireSigner(w, h) # "ok"
    THEN Outcome(h, Idle, requireSigner(w, h))
    ELSE IF handle = UndefinedNumber \/ handle = ZeroHandle
    THEN Outcome([h EXCEPT !.message = missing], Idle, "returned")
    ELSE Outcome(IF Flag(kind) = "none"
                 THEN [h EXCEPT !.message = starting]
                 ELSE [h EXCEPT ![Flag(kind)] = TRUE, !.message = starting],
                 [Closure(w) EXCEPT !.kind = kind, !.pc = "sign", !.arg = handle],
                 "pending")

decryptWinner(w, h) ==
    decrypt("decryptWinner", h.state.winnerHandle,
            "No draw has been executed yet.", "Decrypting winner index...", w, h)

decryptMyId(w, h) ==
    decrypt("decryptMyId", h.state.myIdHandle,
            "No encrypted identifier found for your address.",
            "Decrypting your participant ID...", w, h)

decryptMyStatus(w, h) ==
    decrypt("decryptMyStatus", h.state.myWinHandle,
            "No encrypted draw result yet.", "Decrypting your lottery result...", w, h)

\* a decrypt operation after userDecrypt returned value
decrypted(h, kind, value) ==
    CASE kind = "decryptWinner" ->
            [h EXCEPT !.decryptedWinner = value,
                      !.message = "Winner index decrypted locally."]
      [] kind = "decryptMyStatus" ->
            [h EXCEPT !.decryptedStatus = IF value = 1 THEN 1 ELSE 0,
                      !.message = "Draw result decrypted locally."]
      [] OTHER ->
            [h EXCEPT !.decryptedId = value,
                      !.message = "Encrypted identifier decrypted locally."]

(***************************************************************************)
(* The registration form of the dashboard.  The identifier is typed as a   *)
(* decimal numeral and parsed by Number() into a double.  A double keeps   *)
(* Precision significant bits (53 in IEEE 754) and identifiers have IdBits *)
(* bits (32 in the contract); the model keeps the arithmetic and scales    *)
(* both widths down.  A numeral is held exactly, as a count of units of    *)
(* 2^-FracBits, so that numerals with more bits than a double keeps are    *)
(* among the inputs.                                                       *)
(***************************************************************************)
IdBits == 2

Precision == 3

FracBits == 2

\* 2 ** 32 - 1 in the dashboard
MaxId == 2^IdBits - 1

\* the units in 1
Unit == 2^FracBits

\* the value of the input element: "" or a numeral (type="number" lets
\* nothing else through)
EmptyInput == [digits |-> FALSE, units |-> 0]

Numeral(units) == [digits |-> TRUE, units |-> units]

IdInputs == {EmptyInput} \cup {Numeral(k) : k \in (0 - Unit)..((MaxId + 2) * Unit)}

RECURSIVE BitLength(_)
BitLength(n) == IF n = 0 THEN 0 ELSE 1 + BitLength(n \div 2)

\* round-to-nearest, ties to even, of a magnitude to Precision significant bits
RoundToDouble(n) ==
    LET s == BitLength(n) - Precision
    IN IF s <= 0
       THEN n
       ELSE LET q == n \div 2^s
                r == n % 2^s
                half == 2^(s - 1)
                up == r > half \/ (r = half /\ q % 2 = 1)
            IN (IF up THEN q + 1 ELSE q) * 2^s

\* Number(idInput): the double nearest to the numeral, in units; Number("") is 0
Number(input) ==
    IF ~input.digits THEN 0
    ELSE IF input.units < 0 THEN 0 - RoundToDouble(0 - input.units)
    ELSE RoundToDouble(input.units)

\* Number.isInteger of a double held in units
NumberIsInteger(parsed) == parsed % Unit = 0

\* useState initial values of the dashboard
InitialPage == [idInput |-> EmptyInput, idError |-> Undefined]

(***************************************************************************)
(* Transactions.  The chain serialises calls; each action is one           *)
(* transaction.  receipt describes the transaction executed by the latest  *)
(* step: the function called, msg.sender, the outcome and the logs.        *)
(* drawCount counts the successful draws, to bound them.                   *)
(***************************************************************************)
Receipt(fn, sender, r) ==
    [fn |-> fn, sender |-> sender, status |-> r.status, logs |-> r.logs]

NoTx == [fn |-> "none", sender |-> This, status |-> "ok", logs |-> <<>>]

\* no page is open; pending holds the getSigner calls useBrowserEthers
\* awaits, signerChain the chain the signer was made for (the one with the
\* deployment or the one without)
NoWallet ==
    [address |-> Undefined, provider |-> FALSE, signer |-> NoAccount,
     signerChain |-> FALSE, pending |-> {},
     instance |-> FALSE, canUseContract |-> FALSE, changes |-> 0]

\* no call of the hook yet; refreshes counts the refreshes started, stored is
\* the number of the one whose result hook.state holds
NoCall == [fn |-> "none", result |-> "returned", n |-> 0, refreshes |-> 0, stored |-> 0]

NoHook ==
    /\ wallet = NoWallet
    /\ hook = InitialHook
    /\ ops = [i \in 1..MaxOps |-> Idle]
    /\ call = NoCall
    /\ page = InitialPage

Init ==
    \E deployer \in Deployers, cap \in 0..MaxCap :
        /\ chain = constructor(deployer, cap)
        /\ receipt = [NoTx EXCEPT !.fn = "constructor", !.sender = deployer]
        /\ blockTimestamp = 1
        /\ drawCount = 0
        /\ NoHook

Register ==
    \E sender \in Address, input \in Inputs :
        LET r == register(chain, sender, input)
        IN /\ chain' = r.st
           /\ receipt' = Receipt("register", sender, r)
           /\ UNCHANGED <<blockTimestamp, drawCount, hookVars>>

DrawWinner ==
    \E sender \in Address, seed \in Seeds :
        LET r == drawWinner(chain, sender, seed, blockTimestamp)
        IN /\ r.status = "ok" => drawCount < MaxDraws
           /\ chain' = r.st
           /\ receipt' = Receipt("drawWinner", sender, r)
           /\ drawCount' = IF r.status = "ok" THEN drawCount + 1 ELSE drawCount
           /\ UNCHANGED <<blockTimestamp, hookVars>>

\* a new block: block.timestamp advances, no transaction is executed
MineBlock ==
    /\ blockTimestamp < MaxTimestamp
    /\ blockTimestamp' = blockTimestamp + 1
    /\ receipt' = NoTx
    /\ UNCHANGED <<chain, drawCount, hookVars>>

Next == Register \/ DrawWinner \/ MineBlock

Spec == Init /\ [][Next]_vars

(***************************************************************************)
(* The page: one wallet, the hook and the contract it talks to.  The page  *)
(* calls the hook's functions (at most MaxCalls times, MaxOps of them in   *)
(* flight at once); every awaited promise of an operation in flight        *)
(* settles by resolving or by rejecting; a transaction the hook sent is    *)
(* executed by the contract when tx.wait() settles.                        *)
(***************************************************************************)
\* useBrowserEthers: the effect's cleanup sets isMounted to false for the
\* getSigner calls still pending; setup then drops provider and signer when
\* no wallet is connected, and otherwise installs a provider and awaits
\* getSigner(address), keeping the signer it has meanwhile
setup(w, address) ==
    LET unmounted == {[c EXCEPT !.isMounted = FALSE] : c \in w.pending}
    IN IF address = Undefined
       THEN [w EXCEPT !.address = address, !.provider = FALSE, !.signer = NoAccount,
                      !.signerChain = FALSE, !.pending = unmounted]
       ELSE [w EXCEPT !.address = address, !.provider = TRUE,
                      !.pending = unmounted
                                   \cup {[account |-> AccountOf(address),
                                          chain |-> w.canUseContract,
                                          isMounted |-> TRUE]}]

\* useBrowserEthers: the isMounted test after the await
isMounted_ignored(c) == TRUE

isMounted(c) == c.isMounted

\* useBrowserEthers: getSigner call c settles
getSignerSettled(w, c, ok) ==
    IF isMounted(c)
    THEN [w EXCEPT !.signer = IF ok THEN c.account ELSE NoAccount,
                   !.signerChain = ok /\ c.chain,
                   !.pending = @ \ {c}]
    ELSE [w EXCEPT !.pending = @ \ {c}]

\* a wallet that has just connected: getSigner is pending
ConnectingWallet(a, lower) ==
    setup([NoWallet EXCEPT !.instance = TRUE, !.canUseContract = TRUE],
          IF lower THEN LowerAddress[a] ELSE ChecksumAddress[a])

\* a connected wallet whose getSigner has resolved
ConnectedWallet(a, lower) ==
    getSignerSettled(ConnectingWallet(a, lower),
                     [account |-> a, chain |-> TRUE, isMounted |-> TRUE], TRUE)

\* the contract when the page is opened: just deployed, or with the last
\* wallet account registered and one draw made
Deployed(deployer) == constructor(deployer, MaxCap)

Drawn(deployer) ==
    drawWinner(register(Deployed(deployer), NumWallets,
                        EncryptedInput(NumWallets, 0)).st,
               deployer, 0, 1)

HookInit ==
    \E deployer \in Deployers, a \in WalletAccounts, lower \in BOOLEAN, drawn \in BOOLEAN :
        /\ chain = IF drawn THEN Drawn(deployer).st ELSE Deployed(deployer)
        /\ receipt = IF drawn
                     THEN Receipt("drawWinner", deployer, Drawn(deployer))
                     ELSE [NoTx EXCEPT !.fn = "constructor", !.sender = deployer]
        /\ blockTimestamp = 1
        /\ drawCount = IF drawn THEN 1 ELSE 0
        /\ wallet = ConnectedWallet(a, lower)
        /\ hook = InitialHook
        /\ ops = [i \in 1..MaxOps |-> Idle]
        /\ call = NoCall
        /\ page = InitialPage

FreeSlot == CHOOSE i \in 1..MaxOps : ops[i] = Idle /\ \A j \in 1..(i - 1) : ops[j] # Idle

\* a call of a hook function with outcome out, awaited by caller
CallBy(fn, out, caller) ==
    /\ call.n < MaxCalls
    /\ out.result = "pending" => \E i \in 1..MaxOps : ops[i] = Idle
    /\ hook' = out.hook
    /\ ops' = IF out.result = "pending"
              THEN [ops EXCEPT ![FreeSlot] =
                       [out.op EXCEPT !.started = IF fn = "refresh"
                                                  THEN call.refreshes + 1 ELSE 0,
                                      !.caller = caller]]
              ELSE ops
    /\ call' = [fn |-> fn, result |-> out.result, n |-> call.n + 1,
                refreshes |-> IF fn = "refresh" THEN call.refreshes + 1 ELSE call.refreshes,
                stored |-> IF fn = "refresh" /\ ~wallet.canUseContract
                           THEN call.refreshes + 1 ELSE call.stored]
    /\ UNCHANGED <<wallet, contractVars>>

\* a call of a hook function that no dashboard handler awaits
Call(fn, out) == CallBy(fn, out, "none") /\ UNCHANGED page

CallRefresh == Call("refresh", refresh(hook, Closure(wallet), "none"))

CallRegister == \E clearId \in ClearIds : Call("register", hookRegister(wallet, hook, clearId))

CallDrawWinner == Call("drawWinner", hookDrawWinner(wallet, hook))

CallDecryptWinner == Call("decryptWinner", decryptWinner(wallet, hook))

CallDecryptMyStatus == Call("decryptMyStatus", decryptMyStatus(wallet, hook))

CallDecryptMyId == Call("decryptMyId", decryptMyId(wallet, hook))

\* operation i continues to r.op (Idle when it is over) after the promise it
\* awaited settled with result: resolved, mined (a transaction that
\* succeeded), reverted, or the error it rejected with.  A transaction that
\* succeeded starts a refresh; a refresh that is over after its last read
\* stored what it read.  handleRegister, awaiting register, then clears the
\* input.
Settled(i, r, result) ==
    LET op == ops[i]
        starts == result = "mined"
        number == call.refreshes + 1
    IN /\ hook' = r.hook
       /\ ops' = [ops EXCEPT ![i] = IF starts /\ r.op.kind = "refresh"
                                     THEN [r.op EXCEPT !.started = number]
                                     ELSE r.op]
       /\ call' = [call EXCEPT
                      !.fn = "settle",
                      !.result = result,
                      !.refreshes = IF starts THEN number ELSE @,
                      !.stored = IF starts /\ ~op.canUseContract THEN number
                                 ELSE IF op.kind = "refresh" /\ result = "resolved"
                                         /\ r.op = Idle
                                 THEN op.started
                                 ELSE @]
       /\ page' = IF r.op = Idle /\ op.caller = "handleRegister"
                  THEN [page EXCEPT !.idInput = EmptyInput]
                  ELSE page
       /\ UNCHANGED wallet

\* the awaited promise of operation i resolves
Resolve(i) ==
    LET op == ops[i]
    IN /\ op.kind # "idle"
       /\ op.pc # "wait"
       /\ UNCHANGED contractVars
       /\ CASE op.kind = "refresh" -> Settled(i, refreshStep(hook, op, chain), "resolved")
            [] op.kind = "register" ->
                  Settled(i, [hook |-> hook,
                              op |-> [op EXCEPT !.pc = IF op.pc = "encrypt"
                                                       THEN "send" ELSE "wait"]],
                          "resolved")
            [] op.kind = "drawWinner" ->
                  Settled(i, [hook |-> hook, op |-> [op EXCEPT !.pc = "wait"]], "resolved")
            [] OTHER ->
                  IF op.pc = "sign"
                  THEN Settled(i, [hook |-> hook, op |-> [op EXCEPT !.pc = "decrypt"]],
                               "resolved")
                  ELSE /\ userDecryptAllowed(chain, op.arg, op.signer)
                       /\ Settled(i, [hook |-> finally(decrypted(hook, op.kind,
                                                                 Plain(chain, op.arg)),
                                                       op.kind),
                                      op |-> Idle],
                                  "resolved")

\* the transaction operation i waits for is executed: tx.wait() resolves
\* when it succeeded and rejects when it reverted
Mined(i) ==
    LET op == ops[i]
    IN /\ op.pc = "wait"
       /\ \E seed \in Seeds :
             LET r == IF op.kind = "register"
                      THEN register(chain, op.signer, EncryptedInput(op.signer, op.arg))
                      ELSE drawWinner(chain, op.signer, seed, blockTimestamp)
                 drawn == op.kind = "drawWinner" /\ r.status = "ok"
             IN /\ drawn => drawCount < MaxDraws
                /\ chain' = r.st
                /\ receipt' = Receipt(op.kind, op.signer, r)
                /\ drawCount' = IF drawn THEN drawCount + 1 ELSE drawCount
                /\ UNCHANGED blockTimestamp
                /\ Settled(i,
                           IF r.status # "ok"
                           THEN [hook |-> finally(catch(hook, op.kind, "CALL_EXCEPTION"),
                                                  op.kind),
                                 op |-> Idle]
                           ELSE IF op.kind = "register"
                           THEN afterMined(hook, op,
                                    "Registration successful. Refreshing state...")
                           ELSE afterMined(hook, op,
                                    "Lucky draw executed. Refreshing state..."),
                           IF r.status # "ok" THEN "reverted" ELSE "mined")

\* the errors the awaited promise of an operation can reject with: a
\* rejection in the wallet, a refused decryption, anything else
Errors(op) ==
    CASE op.kind # "refresh" /\ op.pc = "send" -> {"4001", "ACTION_REJECTED", "CALL_EXCEPTION"}
      [] op.pc = "decrypt" -> {"not authorized", "CALL_EXCEPTION"}
      [] OTHER -> {"CALL_EXCEPTION"}

\* the awaited promise of operation i rejects: catch, finally, and for a
\* refresh awaited by register / drawWinner their finally
Reject(i) ==
    LET op == ops[i]
    IN /\ op.kind # "idle"
       /\ UNCHANGED contractVars
       /\ \E error \in Errors(op) :
             Settled(i, [hook |-> finally(finally(catch(hook, op.kind, error), op.kind),
                                          op.parent),
                         op |-> Idle],
                     error)

Settle(i) == Resolve(i) \/ Mined(i) \/ Reject(i)

\* wagmi or useFhevm reports a change (at most MaxWalletChanges times)
WalletChanged(w) ==
    /\ wallet.changes < MaxWalletChanges
    /\ wallet' = [w EXCEPT !.changes = wallet.changes + 1]
    /\ UNCHANGED <<hook, ops, call, page, contractVars>>

\* wagmi reports another account or a disconnect; useBrowserEthers keeps the
\* signer it has until getSigner for the new address settles, and drops it
\* on a disconnect
AccountsChanged ==
    \E a \in WalletAccounts \cup {NoAccount}, lower \in BOOLEAN :
        LET address == IF a = NoAccount THEN Undefined
                       ELSE IF lower THEN LowerAddress[a] ELSE ChecksumAddress[a]
        IN /\ address # wallet.address
           /\ WalletChanged(setup(wallet, address))

\* browserProvider.getSigner(address) settles
SignerResolved ==
    /\ \E c \in wallet.pending, ok \in BOOLEAN : wallet' = getSignerSettled(wallet, c, ok)
    /\ UNCHANGED <<hook, ops, call, page, contractVars>>

\* useFhevm gains or loses its instance
FhevmStatusChanged == WalletChanged([wallet EXCEPT !.instance = ~@])

\* the wallet moves to a chain without, or back to the chain with, a deployment
ChainChanged ==
    WalletChanged(setup([wallet EXCEPT !.canUseContract = ~@], wallet.address))

HookNext ==
    \/ CallRefresh
    \/ CallRegister
    \/ CallDrawWinner
    \/ CallDecryptWinner
    \/ CallDecryptMyStatus
    \/ CallDecryptMyId
    \/ \E i \in 1..MaxOps : Settle(i)
    \/ AccountsChanged
    \/ SignerResolved
    \/ FhevmStatusChanged
    \/ ChainChanged

HookSpec == HookInit /\ [][HookNext]_vars

\* the page with a wallet that stays as it is (addresses as wagmi reports
\* them, in EIP-55 form): calls of the hook and the settling of what they
\* await, and every awaited promise settles
HookFairInit == HookInit /\ wallet.address \in {ChecksumAddress[a] : a \in WalletAccounts}

HookFairNext ==
    \/ CallRefresh
    \/ CallRegister
    \/ CallDrawWinner
    \/ CallDecryptWinner
    \/ CallDecryptMyStatus
    \/ CallDecryptMyId
    \/ \E i \in 1..MaxOps : Settle(i)

HookFairSpec ==
    HookFairInit /\ [][HookFairNext]_vars /\ \A i \in 1..MaxOps : WF_vars(Settle(i))

\* the page while the wallet connects, changes account or chain and
\* disconnects, with getSigner calls pending across the changes; the hook
\* refreshes with the provider or signer useBrowserEthers gives it
BrowserEthersInit ==
    \E deployer \in Deployers, a \in WalletAccounts, lower \in BOOLEAN :
        /\ chain = Deployed(deployer)
        /\ receipt = [NoTx EXCEPT !.fn = "constructor", !.sender = deployer]
        /\ blockTimestamp = 1
        /\ drawCount = 0
        /\ wallet = ConnectingWallet(a, lower)
        /\ hook = InitialHook
        /\ ops = [i \in 1..MaxOps |-> Idle]
        /\ call = NoCall
        /\ page = InitialPage

BrowserEthersNext ==
    \/ AccountsChanged
    \/ ChainChanged
    \/ SignerResolved
    \/ CallRefresh
    \/ \E i \in 1..MaxOps : Resolve(i) \/ Reject(i)

BrowserEthersSpec == BrowserEthersInit /\ [][BrowserEthersNext]_vars

\* the dashboard disables the form without a wallet or a deployment
disableActions(w) == w.address = Undefined \/ ~w.canUseContract

\* onChange of the input element
SetIdInput ==
    /\ ~(disableActions(wallet) \/ hook.state.isRegistered)
    /\ \E input \in IdInputs :
          /\ input # page.idInput
          /\ page' = [page EXCEPT !.idInput = input]
    /\ UNCHANGED <<wallet, hook, ops, call, contractVars>>

\* handleRegister refuses the input with message
setIdError(message) ==
    /\ page' = [page EXCEPT !.idError = message]
    /\ UNCHANGED <<wallet, hook, ops, call, contractVars>>

\* onClick of the register button: handleRegister up to its await; when
\* register throws, the handler ends there
HandleRegister ==
    /\ ~(disableActions(wallet) \/ hook.isRegistering \/ hook.state.isRegistered)
    /\ IF ~page.idInput.digits
       THEN setIdError("Please enter a numeric participant ID.")
       ELSE LET parsed == Number(page.idInput)
            IN IF ~NumberIsInteger(parsed) \/ parsed < 0 \/ parsed > MaxId * Unit
               THEN setIdError("ID must be an integer between 0 and 4,294,967,295.")
               ELSE LET out == hookRegister(wallet, hook, parsed \div Unit)
                    IN /\ CallBy("register", out, "handleRegister")
                       /\ page' = [idInput |-> IF out.result = "returned"
                                               THEN EmptyInput ELSE page.idInput,
                                   idError |-> Undefined]

\* the dashboard with a connected wallet: the form, the refresh of the
\* effect and of the button, and the settling of what they await
DashboardInit == HookFairInit /\ drawCount = 0

DashboardNext ==
    \/ SetIdInput
    \/ HandleRegister
    \/ CallRefresh
    \/ \E i \in 1..MaxOps : Settle(i)

DashboardSpec == DashboardInit /\ [][DashboardNext]_vars

(***************************************************************************)
(* Properties.                                                             *)
(***************************************************************************)
Registered(st) == {a \in Address : st.registered[a]}

\* the accounts the access-control list lets decrypt handle h
AllowedAccounts(st, h) == {a \in Address : isAllowed(st, h, a)}

SuccessfulDraw(rc) == rc.fn = "drawWinner" /\ rc.status = "ok"

SuccessfulRegister(rc) == rc.fn = "register" /\ rc.status = "ok"

NoDuplicates(seq) == \A i, j \in 1..Len(seq) : seq[i] = seq[j] => i = j

\* C1: a register call by an already registered address reverts with
\* AlreadyRegistered and changes nothing in storage (participant list, count,
\* slot indices, encrypted ids, win statuses); no address is ever twice in the
\* participant list.
C1_DuplicateRegistrationReverts ==
    [][ /\ (receipt'.fn = "register" /\ chain.registered[receipt'.sender])
            => /\ receipt'.status = "AlreadyRegistered"
               /\ chain'.participants = chain.participants
               /\ participantCount(chain') = participantCount(chain)
               /\ chain'.indices = chain.indices
               /\ chain'.encryptedIds = chain.encryptedIds
               /\ chain'.winStatus = chain.winStatus
               /\ chain' = chain
        /\ NoDuplicates(chain'.participants) ]_vars

C1_Witness ==
    /\ receipt.fn = "register"
    /\ receipt.status = "AlreadyRegistered"
    /\ chain.registered[receipt.sender]

\* C2: drawWinner called by anybody but the deployer reverts with
\* NotAuthorized, in every state, and leaves the draw state (hasDrawn, winner
\* index, lastDrawTimestamp, win statuses) unchanged.
C2_OnlyAdminDraws ==
    [][ (receipt'.fn = "drawWinner" /\ receipt'.sender # admin(chain))
            => /\ receipt'.status = "NotAuthorized"
               /\ chain'.hasDrawn = chain.hasDrawn
               /\ chain'.encryptedWinnerIndex = chain.encryptedWinnerIndex
               /\ chain'.lastDrawTimestamp = chain.lastDrawTimestamp
               /\ chain'.winStatus = chain.winStatus
               /\ chain' = chain ]_vars

C2_Witness ==
    /\ receipt.fn = "drawWinner"
    /\ receipt.status = "NotAuthorized"
    /\ receipt.sender # admin(chain)
    /\ participantCount(chain) >= 1

\* C3: participantCount() never exceeds maxParticipants(), and a register call
\* by an unregistered address when the count equals the maximum reverts with
\* "Maximum participants reached" without changing state.
C3_MaxParticipantsEnforced ==
    [][ /\ participantCount(chain') <= maxParticipants(chain')
        /\ (/\ receipt'.fn = "register"
            /\ ~chain.registered[receipt'.sender]
            /\ participantCount(chain) = maxParticipants(chain))
            => /\ receipt'.status = "Maximum participants reached"
               /\ chain' = chain ]_vars

C3_Witness ==
    /\ receipt.fn = "register"
    /\ receipt.status = "Maximum participants reached"
    /\ ~chain.registered[receipt.sender]
    /\ participantCount(chain) = maxParticipants(chain)
    /\ maxParticipants(chain) >= 1

\* C4: right after a successful drawWinner every registered participant can
\* decrypt its win status, the status is true exactly when the participant's
\* slot index is the drawn winner index, and exactly one participant has true.
C4_WinStatusMatchesWinnerIndex ==
    SuccessfulDraw(receipt) =>
        /\ participantCount(chain) >= 1
        /\ \A p \in Registered(chain) :
              /\ userDecryptAllowed(chain, chain.winStatus[p], p)
              /\ (Plain(chain, chain.winStatus[p]) = 1
                    <=> chain.indices[p] = Plain(chain, chain.encryptedWinnerIndex))
        /\ Cardinality({p \in Registered(chain) :
                           Plain(chain, chain.winStatus[p]) = 1}) = 1

C4_Witness ==
    /\ SuccessfulDraw(receipt)
    /\ participantCount(chain) >= 2
    /\ \E p \in Registered(chain) : Plain(chain, chain.winStatus[p]) = 0

\* C5: the decrypted winner index designates a registered participant: it is
\* in 0..n-1 after a draw over n participants and stays below
\* participantCount() in every later state.
C5_WinnerIndexInRange ==
    chain.hasDrawn =>
        /\ Plain(chain, chain.encryptedWinnerIndex) \in 0..(participantCount(chain) - 1)
        /\ SuccessfulDraw(receipt) =>
              Plain(chain, chain.encryptedWinnerIndex)
                  \in 0..(receipt.logs[1].participantCount - 1)

C5_Witness ==
    /\ chain.hasDrawn
    /\ SuccessfulRegister(receipt)
    /\ drawCount = MaxDraws

\* C6: a successful register by a adds one participant, makes isRegistered(a)
\* true and stores an encrypted identifier that a can decrypt to the value a
\* encrypted; no later transaction changes a stored identifier.
C6_RegisterStoresIdentifier ==
    [][ /\ SuccessfulRegister(receipt') =>
              LET a == receipt'.sender
                  h == chain'.encryptedIds[a]
              IN /\ ~isRegistered(chain, a)
                 /\ participantCount(chain') = participantCount(chain) + 1
                 /\ isRegistered(chain', a)
                 /\ userDecryptAllowed(chain', h, a)
                 /\ \E v \in ClearIds : /\ h = EncryptedInput(a, v).handle
                                        /\ Plain(chain', h) = v
        /\ \A a \in Registered(chain) :
              /\ chain'.encryptedIds[a] = chain.encryptedIds[a]
              /\ Plain(chain', chain'.encryptedIds[a]) = Plain(chain, chain.encryptedIds[a])
              /\ userDecryptAllowed(chain', chain'.encryptedIds[a], a) ]_vars

C6_Witness ==
    /\ SuccessfulDraw(receipt)
    /\ \E a \in Registered(chain) : Plain(chain, chain.encryptedIds[a]) = MaxClearId
    /\ \E a \in Registered(chain) : Plain(chain, chain.encryptedIds[a]) = 0

\* C7 as stated: the ciphertexts holding p's win status and p's encrypted
\* identifier are decryptable by p and by no other account.
C7_OnlyOwnerDecrypts ==
    \A p \in Registered(chain) :
        /\ AllowedAccounts(chain, chain.winStatus[p]) = {p}
        /\ AllowedAccounts(chain, chain.encryptedIds[p]) = {p}

\* C7 (amended): p's encrypted identifier is decryptable only by p; p's win
\* status is decryptable only by p once a draw has computed it; until then it
\* is the initial encrypted false stored by register, a single ciphertext that
\* every registered participant may decrypt.  The contract holds all of them.
C7_DecryptRights ==
    \A p \in Registered(chain) :
        /\ AllowedAccounts(chain, chain.encryptedIds[p]) = {p}
        /\ isAllowed(chain, chain.encryptedIds[p], This)
        /\ isAllowed(chain, chain.winStatus[p], This)
        /\ IF chain.winStatus[p] = asEbool(FALSE)
           THEN AllowedAccounts(chain, chain.winStatus[p]) = Registered(chain)
           ELSE AllowedAccounts(chain, chain.winStatus[p]) = {p}

C7_Witness ==
    /\ chain.hasDrawn
    /\ \E p, q \in Registered(chain) :
          /\ p # q
          /\ chain.winStatus[p] # asEbool(FALSE)
          /\ chain.winStatus[q] = asEbool(FALSE)
    /\ \E p \in Registered(chain) : p # admin(chain)

\* what a draw with this seed would produce in the current state
DrawOutcome(seed) == drawWinner(chain, admin(chain), seed, blockTimestamp)

\* two draws of the same state that succeed, pick different winners and
\* leave p without the prize
OtherParticipantDrawn(p, s1, s2) ==
    /\ p \in Registered(chain)
    /\ DrawOutcome(s1).status = "ok"
    /\ winnerIndexOf(s1, participantCount(chain)) # winnerIndexOf(s2, participantCount(chain))
    /\ winnerIndexOf(s1, participantCount(chain)) # chain.indices[p]
    /\ winnerIndexOf(s2, participantCount(chain)) # chain.indices[p]

\* every plaintext account p is permitted to decrypt
Decryptable(st, p) ==
    {<<h, Plain(st, h)>> : h \in {x \in DOMAIN st.ciphertexts : userDecryptAllowed(st, x, p)}}

\* everything p can observe: the getters, the logs and what p may decrypt
FullView(r, p) ==
    [participantCount |-> participantCount(r.st),
     isRegistered |-> r.st.registered,
     admin |-> admin(r.st),
     maxParticipants |-> maxParticipants(r.st),
     lastDrawTimestamp |-> lastDrawTimestamp(r.st),
     encryptedWinnerIndex |-> getEncryptedWinnerIndex(r.st),
     encryptedIds |-> r.st.encryptedIds,
     winStatus |-> r.st.winStatus,
     logs |-> r.logs,
     decrypted |-> Decryptable(r.st, p)]

\* the getters that return no ciphertext, the participant count of the draw,
\* p's identifier handle and the plaintexts of p's own identifier and status
OwnResultView(r, p) ==
    [participantCount |-> participantCount(r.st),
     isRegistered |-> r.st.registered,
     admin |-> admin(r.st),
     maxParticipants |-> maxParticipants(r.st),
     lastDrawTimestamp |-> lastDrawTimestamp(r.st),
     drawnOver |-> r.logs[1].participantCount,
     myIdHandle |-> r.st.encryptedIds[p],
     myId |-> Plain(r.st, r.st.encryptedIds[p]),
     canDecryptStatus |-> userDecryptAllowed(r.st, r.st.winStatus[p], p),
     myStatus |-> Plain(r.st, r.st.winStatus[p])]

\* C8 as stated: when two draws of the same registrations differ only in which
\* other participant wins, everything a non-winning participant observes
\* (getters, events, every ciphertext it may decrypt) is identical.
C8_CannotTellWhoWon ==
    \A p \in Address, s1, s2 \in Seeds :
        OtherParticipantDrawn(p, s1, s2) =>
            FullView(DrawOutcome(s1), p) = FullView(DrawOutcome(s2), p)

\* C8 (amended): in two such draws the non-winning participant p reads the
\* same participant count, registration flags, admin, maximum and draw
\* timestamp, decrypts the same identifier and the same (false) win status;
\* the winner index, which p may decrypt, the handles derived from it and the
\* randomness commitment do differ.
C8_OwnResultIndependent ==
    \A p \in Address, s1, s2 \in Seeds :
        OtherParticipantDrawn(p, s1, s2) =>
            /\ OwnResultView(DrawOutcome(s1), p) = OwnResultView(DrawOutcome(s2), p)
            /\ OwnResultView(DrawOutcome(s1), p).myStatus = 0
            /\ userDecryptAllowed(DrawOutcome(s1).st, DrawOutcome(s1).st.encryptedWinnerIndex, p)
            /\ Plain(DrawOutcome(s1).st, DrawOutcome(s1).st.encryptedWinnerIndex)
                 # Plain(DrawOutcome(s2).st, DrawOutcome(s2).st.encryptedWinnerIndex)

C8_Witness ==
    /\ participantCount(chain) >= 3
    /\ SuccessfulDraw(receipt)
    /\ \E p \in Address, s1, s2 \in Seeds :
          /\ OtherParticipantDrawn(p, s1, s2)
          /\ Plain(chain, chain.encryptedWinnerIndex) = winnerIndexOf(s1, participantCount(chain))

\* C9: once a draw has occurred every registered participant may decrypt the
\* current encrypted winner index - those present at the draw, those who
\* registered after it, and all of them again after a redraw.
C9_WinnerIndexReadableByAll ==
    chain.hasDrawn =>
        \A p \in Registered(chain) :
            userDecryptAllowed(chain, chain.encryptedWinnerIndex, p)

C9_Witness ==
    /\ chain.hasDrawn
    /\ SuccessfulRegister(receipt)
    /\ participantCount(chain) >= 2

\* C10: drawWinner by the admin with no registered participant reverts with
\* NoParticipants and the contract stays in its pre-draw state: no draw
\* recorded, lastDrawTimestamp() 0, winner index the zero handle.
C10_EmptyDrawReverts ==
    [][ (/\ receipt'.fn = "drawWinner"
         /\ receipt'.sender = admin(chain)
         /\ participantCount(chain) = 0)
            => /\ receipt'.status = "NoParticipants"
               /\ chain' = chain
               /\ ~chain'.hasDrawn
               /\ lastDrawTimestamp(chain') = 0
               /\ getEncryptedWinnerIndex(chain') = ZeroHandle ]_vars

C10_Witness ==
    /\ receipt.fn = "drawWinner"
    /\ receipt.status = "NoParticipants"
    /\ receipt.sender = admin(chain)
    /\ blockTimestamp > 1

\* C11: getEncryptedId(a) and getEncryptedWinStatus(a) revert with
\* NotRegistered for every unregistered a; for a registered a they return,
\* and what they return is not the zero handle - before and after any draw.
C11_EncryptedGetters ==
    \A a \in Address :
        IF isRegistered(chain, a)
        THEN /\ getEncryptedId(chain, a).status = "ok"
             /\ getEncryptedId(chain, a).value # ZeroHandle
             /\ getEncryptedWinStatus(chain, a).status = "ok"
             /\ getEncryptedWinStatus(chain, a).value # ZeroHandle
        ELSE /\ getEncryptedId(chain, a).status = "NotRegistered"
             /\ getEncryptedWinStatus(chain, a).status = "NotRegistered"

C11_Witness ==
    /\ drawCount = MaxDraws
    /\ \E a, b \in Address : isRegistered(chain, a) /\ ~isRegistered(chain, b)
    /\ \E a \in Registered(chain) : getEncryptedWinStatus(chain, a).value # asEbool(FALSE)

\* C12: registration -> draw -> result: a draw has succeeded only if somebody
\* registered before, and until the first successful draw every registered
\* participant's win status is the initial encrypted false (none is true).
C12_Lifecycle ==
    /\ chain.hasDrawn => participantCount(chain) >= 1
    /\ SuccessfulDraw(receipt) => participantCount(chain) >= 1
    /\ drawCount > 0 => chain.hasDrawn
    /\ ~chain.hasDrawn =>
          \A p \in Registered(chain) :
              /\ chain.winStatus[p] = asEbool(FALSE)
              /\ Plain(chain, chain.winStatus[p]) = 0

C12_Witness ==
    /\ ~chain.hasDrawn
    /\ participantCount(chain) >= 2
    /\ receipt.fn = "drawWinner"
    /\ receipt.status = "NotAuthorized"

\* C13: maxParticipants() and admin() are fixed at deployment: admin() is the
\* deployer, and no register or drawWinner call, by any caller, changes either.
C13_ConfigurationFixed ==
    /\ (admin(chain) = receipt.sender /\ maxParticipants(chain) \in 0..MaxCap)
    /\ [][ /\ admin(chain') = admin(chain)
           /\ maxParticipants(chain') = maxParticipants(chain)
           /\ admin(chain') \in Deployers ]_vars

C13_Witness ==
    /\ drawCount >= 1
    /\ participantCount(chain) = maxParticipants(chain)
    /\ SuccessfulRegister(receipt)

\* C14: getEncryptedWinnerIndex() is the zero handle as long as no draw has
\* succeeded and a non-zero handle in every state after the first one.
C14_WinnerIndexHandle ==
    /\ drawCount = 0 => getEncryptedWinnerIndex(chain) = ZeroHandle
    /\ drawCount > 0 => getEncryptedWinnerIndex(chain) # ZeroHandle

C14_Witness ==
    /\ drawCount > 0
    /\ Plain(chain, getEncryptedWinnerIndex(chain)) = 0
    /\ participantCount(chain) >= 2

\* C15: lastDrawTimestamp() is 0 exactly while no draw has succeeded; a
\* successful drawWinner sets it to the block timestamp; it never decreases
\* and register and reverted calls leave it alone.  The dashboard shows "Never"
\* exactly for a fetched value of 0 or undefined.
C15_LastDrawTimestamp ==
    /\ [](lastDrawTimestamp(chain) = 0 <=> drawCount = 0)
    /\ [](lastDrawRelative(lastDrawTimestamp(chain)) = "Never" <=> drawCount = 0)
    /\ [](\A t \in {UndefinedNumber} \cup 0..MaxTimestamp :
             lastDrawRelative(t) = "Never" <=> (t = 0 \/ t = UndefinedNumber))
    /\ [][ /\ lastDrawTimestamp(chain') >= lastDrawTimestamp(chain)
           /\ SuccessfulDraw(receipt') => lastDrawTimestamp(chain') = blockTimestamp
           /\ ~SuccessfulDraw(receipt') => lastDrawTimestamp(chain') = lastDrawTimestamp(chain) ]_vars

C15_Witness ==
    /\ drawCount = MaxDraws
    /\ lastDrawTimestamp(chain) = MaxTimestamp
    /\ SuccessfulRegister(receipt)

\* C16: slot indices are the zero-based registration positions: the k-th
\* successful registration emits ParticipantRegistered(sender, k) and stores
\* k; the registered addresses map one-to-one onto 0..participantCount()-1
\* and the participant at position indices[a] is a.
C16_SlotIndices ==
    /\ \A a \in Registered(chain) :
          /\ chain.indices[a] \in 0..(participantCount(chain) - 1)
          /\ chain.participants[chain.indices[a] + 1] = a
    /\ \A a, b \in Registered(chain) : chain.indices[a] = chain.indices[b] => a = b
    /\ Cardinality(Registered(chain)) = participantCount(chain)
    /\ SuccessfulRegister(receipt) =>
          /\ receipt.logs = <<[name |-> "ParticipantRegistered",
                               participant |-> receipt.sender,
                               index |-> participantCount(chain) - 1]>>
          /\ chain.indices[receipt.sender] = participantCount(chain) - 1

C16_Witness ==
    /\ SuccessfulRegister(receipt)
    /\ participantCount(chain) = 3
    /\ chain.hasDrawn

\* C17: every successful drawWinner emits WinnerDrawn exactly once, with the
\* number of participants registered when the draw executed; a reverted
\* drawWinner and a register emit none.
C17_WinnerDrawnEvent ==
    [][ /\ SuccessfulDraw(receipt') =>
              /\ Len(receipt'.logs) = 1
              /\ receipt'.logs[1].name = "WinnerDrawn"
              /\ receipt'.logs[1].participantCount = participantCount(chain)
              /\ receipt'.logs[1].participantCount = participantCount(chain')
        /\ (receipt'.fn = "drawWinner" /\ receipt'.status # "ok") => receipt'.logs = <<>>
        /\ receipt'.fn # "drawWinner" =>
              \A i \in 1..Len(receipt'.logs) : receipt'.logs[i].name # "WinnerDrawn" ]_vars

C17_Witness ==
    /\ SuccessfulDraw(receipt)
    /\ receipt.logs[1].participantCount = 2
    /\ drawCount = 2

\* C18: calls are serialised and atomic and registration stays open across
\* draws: a draw computes the result of everybody registered before it; a
\* registration after a draw is not refused because of the draw, gets win
\* status false and leaves the winner index and all other win statuses as
\* they are; a reverted call changes nothing.
C18_RegistrationAcrossDraws ==
    [][ /\ receipt'.status # "ok" => chain' = chain
        /\ SuccessfulDraw(receipt') =>
              \A p \in Registered(chain) :
                  /\ chain'.winStatus[p] =
                         eqHandle(chain'.encryptedWinnerIndex, asEuint32(chain.indices[p]))
                  /\ userDecryptAllowed(chain', chain'.winStatus[p], p)
                  /\ (Plain(chain', chain'.winStatus[p]) = 1
                        <=> chain.indices[p] = Plain(chain', chain'.encryptedWinnerIndex))
        /\ (/\ receipt'.fn = "register"
            /\ chain.hasDrawn
            /\ ~isRegistered(chain, receipt'.sender)
            /\ participantCount(chain) < maxParticipants(chain))
              => receipt'.status \in {"ok", "InvalidInputProof"}
        /\ (SuccessfulRegister(receipt') /\ chain.hasDrawn) =>
              /\ Plain(chain', chain'.winStatus[receipt'.sender]) = 0
              /\ chain'.encryptedWinnerIndex = chain.encryptedWinnerIndex
              /\ Plain(chain', chain'.encryptedWinnerIndex)
                     = Plain(chain, chain.encryptedWinnerIndex)
              /\ \A q \in Registered(chain) :
                    /\ chain'.winStatus[q] = chain.winStatus[q]
                    /\ Plain(chain', chain'.winStatus[q]) = Plain(chain, chain.winStatus[q]) ]_vars

C18_Witness ==
    /\ SuccessfulRegister(receipt)
    /\ chain.hasDrawn
    /\ participantCount(chain) >= 2
    /\ \E q \in Registered(chain) : Plain(chain, chain.winStatus[q]) = 1

\* an operation of the kind is in flight, possibly inside the refresh it awaits
InFlight(kind) == \E i \in 1..MaxOps : ops[i].kind = kind \/ ops[i].parent = kind

FlagKinds == {"refresh", "register", "drawWinner", "decryptWinner", "decryptMyStatus"}

\* C19: the loading flags of useLuckyDraw are always released: a flag that
\* is set is eventually cleared when the awaited calls of the operation
\* settle, whether they resolve, throw or are rejected in the wallet (from
\* every state on each flag is false again at some later state, which is
\* flag ~> ~flag); and no flag is set while no operation of its kind is in
\* flight.
C19_FlagsReleased ==
    /\ [](\A kind \in FlagKinds : ~InFlight(kind) => ~hook[Flag(kind)])
    /\ []<>~hook.isRefreshing
    /\ []<>~hook.isRegistering
    /\ []<>~hook.isDrawing
    /\ []<>~hook.isDecryptingWinner
    /\ []<>~hook.isDecryptingStatus

C19_Witness ==
    /\ hook.message = "Lucky draw cancelled in wallet."
    /\ \A kind \in FlagKinds : ~hook[Flag(kind)]
    /\ \A i \in 1..MaxOps : ops[i] = Idle

\* the step is a call of the hook's drawWinner while the connected address
\* differs, ignoring case, from the administrator address held in state
NonAdminCallsDrawWinner ==
    /\ call'.n # call.n
    /\ call'.fn = "drawWinner"
    /\ wallet.address # Undefined
    /\ hook.state.admin # Undefined
    /\ toLowerCase(wallet.address) # toLowerCase(hook.state.admin)

NoDrawSubmitted ==
    /\ ops' = ops
    /\ chain' = chain
    /\ hook'.isDrawing = hook.isDrawing
    /\ drawButtonDisabled(wallet, hook)

\* C20 as stated: for a connected address other than the administrator's the
\* hook's drawWinner sends no transaction, sets the message "Only the
\* administrator can trigger a lucky draw." and leaves isDrawing alone, and
\* the draw button is disabled.
C20_NonAdminDrawRefused ==
    [][NonAdminCallsDrawWinner =>
          /\ NoDrawSubmitted
          /\ hook'.message = "Only the administrator can trigger a lucky draw."]_vars

\* C20: for a connected address other than the administrator's the hook's
\* drawWinner sends no transaction and leaves isDrawing alone, and the draw
\* button is disabled; it sets the message "Only the administrator can
\* trigger a lucky draw." when requireSigner passes, and otherwise throws
\* requireSigner's error and changes nothing.  No draw in flight was started
\* for an address other than the administrator's.
C20_NonAdminDrawNotSubmitted ==
    /\ [](\A i \in 1..MaxOps :
             (ops[i].kind = "drawWinner" \/ ops[i].parent = "drawWinner")
                => isAdmin(ops[i].address, ChecksumAddress[admin(chain)]))
    /\ [][NonAdminCallsDrawWinner =>
             /\ NoDrawSubmitted
             /\ IF requireSigner(wallet, hook) = "ok"
                THEN /\ call'.result = "returned"
                     /\ hook'.message = "Only the administrator can trigger a lucky draw."
                ELSE /\ call'.result = requireSigner(wallet, hook)
                     /\ hook' = hook]_vars

C20_Witness ==
    /\ call.fn = "drawWinner"
    /\ call.result = "returned"
    /\ hook.message = "Only the administrator can trigger a lucky draw."
    /\ ~isAdmin(wallet.address, hook.state.admin)
    /\ hook.state.admin = ChecksumAddress[admin(chain)]

\* the operations that send a transaction
TxKinds == {"register", "drawWinner"}

\* operation i takes a step: the promise it awaits settles
Continues(i) == ops[i] # Idle /\ ops'[i] # ops[i]

\* the message of the catch block of register / drawWinner
Cancelled(kind) ==
    IF kind = "register" THEN "Registration cancelled in wallet."
    ELSE "Lucky draw cancelled in wallet."

Failed(kind) ==
    IF kind = "register" THEN "Registration failed."
    ELSE "Failed to execute lucky draw."

\* C22: when the transaction of register / drawWinner is mined successfully
\* the hook runs refresh, and its isRegistering / isDrawing flag is left as
\* it is while that refresh is in flight and cleared in the step in which
\* the refresh is over (at once when refresh returns without reading);
\* when the transaction is rejected or fails no refresh is run, the state
\* is left alone, the flag is cleared and the message reports cancellation
\* for the wallet error codes 4001 and ACTION_REJECTED and failure for any
\* other error.
C22_RefreshAwaited ==
    [][\A i \in 1..MaxOps :
          LET op == ops[i]
          IN Continues(i) =>
                /\ (op.kind \in TxKinds /\ call'.result = "mined") =>
                       /\ call'.refreshes = call.refreshes + 1
                       /\ \/ /\ ops'[i].kind = "refresh"
                             /\ ops'[i].parent = op.kind
                             /\ ops'[i].started = call'.refreshes
                             /\ hook'.isRefreshing
                             /\ hook'[Flag(op.kind)] = hook[Flag(op.kind)]
                          \/ /\ ops'[i] = Idle
                             /\ ~op.canUseContract \/ (~hook.contractRef /\ ~op.runner)
                             /\ ~hook'[Flag(op.kind)]
                /\ (op.kind = "refresh" /\ op.parent \in TxKinds) =>
                       \/ /\ ops'[i] = [op EXCEPT !.pc = ops'[i].pc, !.reads = ops'[i].reads]
                          /\ hook'[Flag(op.parent)] = hook[Flag(op.parent)]
                       \/ /\ ops'[i] = Idle
                          /\ ~hook'.isRefreshing
                          /\ ~hook'[Flag(op.parent)]
                /\ (op.kind \in TxKinds /\ call'.result \notin {"resolved", "mined"}) =>
                       /\ ops'[i] = Idle
                       /\ call'.refreshes = call.refreshes
                       /\ hook'.state = hook.state
                       /\ hook'.isRefreshing = hook.isRefreshing
                       /\ ~hook'[Flag(op.kind)]
                       /\ hook'.message = IF isUserRejectedError(call'.result)
                                          THEN Cancelled(op.kind)
                                          ELSE Failed(op.kind)]_vars

\* the refresh run by a successful drawWinner is at its last read and
\* isDrawing is still set
C22_Witness ==
    /\ \E i \in 1..MaxOps :
          /\ ops[i].kind = "refresh"
          /\ ops[i].parent = "drawWinner"
          /\ ops[i].pc = "handles"
    /\ hook.isDrawing
    /\ SuccessfulDraw(receipt)
    /\ call.fn = "settle"

\* the addresses in the participant list
Listed(st) == {st.participants[i] : i \in 1..Len(st.participants)}

\* C23: registration is permanent and the bookkeeping consistent:
\* isRegistered(a) holds exactly for the addresses in the participant list,
\* participantCount() is the number of addresses with isRegistered true, it
\* never decreases and a registered address stays registered.
C23_RegistrationPermanent ==
    /\ [](/\ \A a \in Address : isRegistered(chain, a) <=> a \in Listed(chain)
          /\ participantCount(chain)
                = Cardinality({a \in Address : isRegistered(chain, a)}))
    /\ [][ /\ participantCount(chain') >= participantCount(chain)
           /\ \A a \in Address : isRegistered(chain, a) => isRegistered(chain', a) ]_vars

C23_Witness ==
    /\ participantCount(chain) = 2
    /\ receipt.fn = "register"
    /\ receipt.status = "AlreadyRegistered"
    /\ drawCount = 1

\* the registered participants whose current win status decrypts to true
Winners(st) == {p \in Registered(st) : Plain(st, st.winStatus[p]) = 1}

\* C24: at most one registered participant's win status decrypts to true;
\* once a draw has occurred exactly one does, the participant at the current
\* winner index, also after registrations made since; a redraw writes the
\* result of every participant anew.
C24_AtMostOneWinner ==
    /\ [](/\ Cardinality(Winners(chain)) <= 1
          /\ chain.hasDrawn =>
                /\ Plain(chain, chain.encryptedWinnerIndex) \in 0..(participantCount(chain) - 1)
                /\ Winners(chain)
                      = {chain.participants[Plain(chain, chain.encryptedWinnerIndex) + 1]})
    /\ [][SuccessfulDraw(receipt') =>
             \A p \in Registered(chain) :
                 Plain(chain', chain'.winStatus[p]) =
                    IF chain.indices[p] = Plain(chain', chain'.encryptedWinnerIndex)
                    THEN 1 ELSE 0]_vars

C24_Witness ==
    /\ drawCount = 2
    /\ SuccessfulRegister(receipt)
    /\ participantCount(chain) = 3
    /\ Winners(chain) = {chain.participants[2]}

\* the storage a draw writes, and the co-processor state it extends
DrawState == {"encryptedWinnerIndex", "hasDrawn", "lastDrawTimestamp", "winStatus",
              "ciphertexts", "acl"}

\* C25: a successful drawWinner leaves the participant list, the count,
\* isRegistered, every slot index and every stored encrypted identifier
\* (handle and plaintext) unchanged; it writes only the encrypted winner
\* index, hasDrawn, lastDrawTimestamp and the win statuses.
C25_DrawFrame ==
    [][SuccessfulDraw(receipt') =>
          /\ chain'.participants = chain.participants
          /\ participantCount(chain') = participantCount(chain)
          /\ \A a \in Address :
                /\ isRegistered(chain', a) = isRegistered(chain, a)
                /\ chain'.indices[a] = chain.indices[a]
                /\ chain'.encryptedIds[a] = chain.encryptedIds[a]
          /\ \A a \in Registered(chain) :
                Plain(chain', chain'.encryptedIds[a]) = Plain(chain, chain.encryptedIds[a])
          /\ \A f \in (DOMAIN chain) \ DrawState : chain'[f] = chain[f]
          /\ chain.acl \subseteq chain'.acl
          /\ chain'.hasDrawn
          /\ chain'.lastDrawTimestamp = blockTimestamp]_vars

C25_Witness ==
    /\ SuccessfulDraw(receipt)
    /\ participantCount(chain) = 3
    /\ drawCount = 2
    /\ Plain(chain, chain.encryptedWinnerIndex) = 2

\* C26: overlapping refreshes do not leave stale data.  Refreshes are
\* numbered in the order in which they were started, and state.isDeployed
\* tells that the state was stored by a refresh that read the contract.
\* When a refresh is over that was in flight together with a refresh
\* started after it, and that later refresh has stored what it fetched,
\* the state stays the one the later refresh stored: the state finally
\* stored is the data of the most recently started refresh.
C26_LatestRefreshWins ==
    [][(hook.state.isDeployed /\ call'.stored < call.stored)
          => hook'.state = hook.state]_vars

\* value is what userDecrypt gives for handle, a handle held in state
DecryptionOf(value, handle) ==
    /\ handle \notin {UndefinedNumber, ZeroHandle}
    /\ handle \in DOMAIN chain.ciphertexts
    /\ value = Plain(chain, handle)

\* C27: whenever decryptedWinner, decryptedStatus or decryptedId is defined
\* it is the decryption of the handle currently held in state (winnerHandle,
\* myWinHandle, myIdHandle).
C27_DecryptedMatchesState ==
    /\ hook.decryptedWinner # UndefinedNumber =>
           DecryptionOf(hook.decryptedWinner, hook.state.winnerHandle)
    /\ hook.decryptedStatus # UndefinedNumber =>
           /\ hook.decryptedStatus \in {0, 1}
           /\ DecryptionOf(hook.decryptedStatus, hook.state.myWinHandle)
    /\ hook.decryptedId # UndefinedNumber =>
           DecryptionOf(hook.decryptedId, hook.state.myIdHandle)

\* refresh is called while the contract is not available on the chain
RefreshWithoutContract ==
    /\ call'.n = call.n + 1
    /\ call'.fn = "refresh"
    /\ ~wallet.canUseContract

\* C28: when the contract is not available on the current chain refresh
\* resets every contract-derived field of the state to its initial value
\* (contractAddress, isDeployed, participantCount, maxParticipants,
\* lastDrawTimestamp, admin, winnerHandle, myIdHandle, myWinHandle,
\* isRegistered) and makes no contract call: it returns with no operation
\* in flight added.
C28_RefreshResetsState ==
    [][RefreshWithoutContract =>
          /\ hook'.state = InitialState
          /\ call'.result = "returned"
          /\ ops' = ops]_vars

\* a getSigner call of useBrowserEthers settles in this step
GetSignerSettles(c) ==
    /\ c \in wallet.pending
    /\ wallet'.pending = wallet.pending \ {c}
    /\ wallet'.changes = wallet.changes

\* the signer installed is the one for the connected address and chain
SignerIsCurrent ==
    /\ wallet.signer = AccountOf(wallet.address)
    /\ wallet.signerChain = wallet.canUseContract

\* C29 as stated: after all pending getSigner calls settled the signer is
\* the one for the currently connected address, and when the wallet is
\* disconnected both provider and signer are undefined.
C29_SignerForConnectedAddress ==
    /\ (wallet.pending = {} /\ wallet.address # Undefined) => SignerIsCurrent
    /\ wallet.address = Undefined => ~wallet.provider /\ wallet.signer = NoAccount

\* C29: useBrowserEthers never installs a signer for a stale wallet: the
\* only getSigner call whose result is used is the one for the connected
\* address and chain, the result of any other is discarded, so after all
\* pending calls settled the signer is the one for the connected address
\* and chain, or undefined when getSigner for them failed; when the wallet
\* is disconnected both provider and signer are undefined.
C29_NoStaleSigner ==
    /\ [](/\ \A c \in wallet.pending :
                c.isMounted => /\ c.account = AccountOf(wallet.address)
                               /\ c.chain = wallet.canUseContract
          /\ (wallet.pending = {} /\ wallet.signer # NoAccount) => SignerIsCurrent
          /\ wallet.address = Undefined => ~wallet.provider /\ wallet.signer = NoAccount)
    /\ [][\A c \in wallet.pending :
             (GetSignerSettles(c) /\ ~c.isMounted) =>
                 /\ wallet'.signer = wallet.signer
                 /\ wallet'.signerChain = wallet.signerChain
                 /\ wallet'.provider = wallet.provider]_vars

\* the signer for the newly connected account is installed while getSigner
\* for the previous account is still pending
C29_Witness ==
    /\ wallet.signer # NoAccount
    /\ SignerIsCurrent
    /\ \E c \in wallet.pending : ~c.isMounted /\ c.account # wallet.signer

\* the numeral typed is an integer between 0 and MaxId
ValidIdInput(input) ==
    /\ input.digits
    /\ input.units % Unit = 0
    /\ 0 <= input.units
    /\ input.units <= MaxId * Unit

\* this step calls luckyDraw.register
RegisterCalled == call'.n = call.n + 1 /\ call'.fn = "register"

\* C21: handleRegister calls luckyDraw.register(v) only when the input is
\* non-empty and v, the number typed, is an integer with 0 <= v <= MaxId;
\* for an empty, non-integer, negative or larger input it sets an error
\* message and does not call register.
C21_OnlyValidIdentifiers ==
    [][HandleRegister =>
          IF ValidIdInput(page.idInput)
          THEN /\ RegisterCalled
               /\ page'.idError = Undefined
               /\ call'.result = "pending" =>
                      \E i \in 1..MaxOps :
                          /\ ops[i] = Idle
                          /\ ops'[i].kind = "register"
                          /\ ops'[i].arg * Unit = page.idInput.units
          ELSE /\ page'.idError # Undefined
               /\ call' = call
               /\ ops' = ops
               /\ hook' = hook]_vars


====
